---------------------------- MODULE Spec2Model ----------------------------
(***************************************************************************)
(* Model of the extrusion process monitor (src/extrusion-anomaly-v2.jsx):  *)
(* the stream controller of ExtrusionAnomalyMonitor (tick, the timer       *)
(* effect, injectFault, reset, the START/STOP button) and the data         *)
(* generator it drives.                                                    *)
(*                                                                         *)
(* Numbers.  Readings are fixed-point integers.  A value shown with three  *)
(* decimals (toFixed(3)) is held in thousandths ("milli"); the unrounded   *)
(* val of generatePoint is held in millionths ("micro").  Math.random()    *)
(* is held in ten-thousandths, 0 .. 9999, so that every product below is   *)
(* exact.  The joint statistic is kept as an exact rational over the       *)
(* denominator 120000^2, as the pair [hi, lo] standing for hi*10^6 + lo.   *)
(***************************************************************************)
EXTENDS Integers, Sequences, FiniteSets, TLC

\* ------------------------------------------------------------------------
\* Bounds of the model
\* ------------------------------------------------------------------------
\* ticks since the last reset, and button clicks since construction
MaxTick == 11
MaxClicks == 3
\* the long run: ticks since the last reset, clicks since construction, and
\* the clicks' times (at tick 0, then every LongStride ticks from LongFrom on)
MaxTickLong == 124
MaxClicksLong == 7
LongFrom == 72
LongStride == 9
\* the analysis: calls of the analysis functions on one input, the scalar
\* multiples of a signature, and the entries of a small contribution vector
MaxCalls == 3
MaxScale == 3
MaxContribution == 2
\* the diagnosis: the largest score, in tenths, the search for a rounded
\* similarity considers (the code clamps nothing)
MaxScore == 2000

\* ------------------------------------------------------------------------
\* Process parameter configuration
\* ------------------------------------------------------------------------
\* mean, std, ucl, lcl in thousandths of the parameter's unit
PARAMS ==
  [ barrel_temp    |-> [label |-> "Barrel Temp",    unit |-> "C",
                        mean |-> 200000, std |-> 3000, ucl |-> 209000, lcl |-> 191000],
    screw_speed    |-> [label |-> "Screw Speed",    unit |-> "RPM",
                        mean |-> 85000,  std |-> 2000, ucl |-> 91000,  lcl |-> 79000],
    melt_pressure  |-> [label |-> "Melt Pressure",  unit |-> "bar",
                        mean |-> 280000, std |-> 8000, ucl |-> 304000, lcl |-> 256000],
    line_speed     |-> [label |-> "Line Speed",     unit |-> "m/min",
                        mean |-> 45000,  std |-> 1500, ucl |-> 49500,  lcl |-> 40500],
    die_pressure   |-> [label |-> "Die Pressure",   unit |-> "bar",
                        mean |-> 180000, std |-> 5000, ucl |-> 195000, lcl |-> 165000],
    wall_thickness |-> [label |-> "Wall Thickness", unit |-> "mm",
                        mean |-> 1200,   std |-> 50,   ucl |-> 1350,   lcl |-> 1050] ]

\* Object.keys(PARAMS), in insertion order
PARAM_KEYS ==
  << "barrel_temp", "screw_speed", "melt_pressure",
     "line_speed", "die_pressure", "wall_thickness" >>

NumParams == Len(PARAM_KEYS)

\* T2_UCL = 12.6, in thousandths
T2_UCL == 12600

\* ------------------------------------------------------------------------
\* Fault mode library (name, driver, delta in thousandths, duration)
\* ------------------------------------------------------------------------
FAULT_MODES ==
  << [name |-> "Die Wear",       param |-> "die_pressure",   delta |-> -28000, duration |-> 10],
     [name |-> "Screw Slip",     param |-> "screw_speed",    delta |-> -12000, duration |-> 6],
     [name |-> "Temp Spike",     param |-> "barrel_temp",    delta |-> 22000,  duration |-> 5],
     [name |-> "Pressure Surge", param |-> "melt_pressure",  delta |-> 45000,  duration |-> 7],
     [name |-> "Line Slowdown",  param |-> "line_speed",     delta |-> -8000,  duration |-> 8],
     [name |-> "Thin Wall",      param |-> "wall_thickness", delta |-> -180,   duration |-> 6] >>

\* null: no fault, no timer
NoFault == [name |-> "none", param |-> "none", delta |-> 0, duration |-> 0]

FaultSet == { FAULT_MODES[i] : i \in 1..Len(FAULT_MODES) }

\* fault.signature of FAULT_MODES[i], in hundredths
Signatures ==
  << [die_pressure |-> 65, melt_pressure |-> 18, wall_thickness |-> 10,
      line_speed |-> 4, barrel_temp |-> 2, screw_speed |-> 1],
     [screw_speed |-> 60, melt_pressure |-> 20, line_speed |-> 10,
      barrel_temp |-> 6, die_pressure |-> 3, wall_thickness |-> 1],
     [barrel_temp |-> 70, melt_pressure |-> 15, screw_speed |-> 8,
      die_pressure |-> 4, line_speed |-> 2, wall_thickness |-> 1],
     [melt_pressure |-> 62, barrel_temp |-> 14, die_pressure |-> 12,
      screw_speed |-> 7, wall_thickness |-> 3, line_speed |-> 2],
     [line_speed |-> 58, wall_thickness |-> 22, die_pressure |-> 10,
      melt_pressure |-> 6, screw_speed |-> 3, barrel_temp |-> 1],
     [wall_thickness |-> 68, die_pressure |-> 14, line_speed |-> 10,
      melt_pressure |-> 5, screw_speed |-> 2, barrel_temp |-> 1] >>

\* the names of FAULT_MODES in array order
CatalogNames == [i \in 1..Len(FAULT_MODES) |-> FAULT_MODES[i].name]

\* faulty variant: every fault carries the signature of the next entry
SignatureOfNeighbour(name) ==
  Signatures[((CHOOSE i \in 1..Len(FAULT_MODES) : FAULT_MODES[i].name = name)
                % Len(FAULT_MODES)) + 1]

\* fault.signature of the fault of that name
SignatureOf(name) ==
  Signatures[CHOOSE i \in 1..Len(FAULT_MODES) : FAULT_MODES[i].name = name]

\* ------------------------------------------------------------------------
\* Math.random(): a generator with hidden state.  The model's generator
\* walks a short cycle that holds the ends and the middle of [0, 1).
\* ------------------------------------------------------------------------
RandTable == << 0, 9999, 0, 5000, 2500 >>

RandPeriod == Len(RandTable)

\* the i-th draw (i = 1, 2, ...) after generator state s
RandAt(s, i) == RandTable[((s + i - 1) % RandPeriod) + 1]

\* the draws one generatePoint call can take (one per parameter, and one
\* more for the driver of the active fault) after generator state s
DrawsAt(s) == [i \in 1..(NumParams + 1) |-> RandAt(s, i)]

\* ------------------------------------------------------------------------
\* Arithmetic helpers
\* ------------------------------------------------------------------------
Abs(x) == IF x < 0 THEN -x ELSE x

Min(a, b) == IF a < b THEN a ELSE b

Max(a, b) == IF a > b THEN a ELSE b

\* Number.prototype.toFixed on a non-negative value: round half up,
\* from unit/10^k to unit
RoundDiv(x, d) == (x + (d \div 2)) \div d

RECURSIVE SumTo(_, _)
SumTo(f, n) == IF n = 0 THEN 0 ELSE f[n] + SumTo(f, n - 1)

\* prev.slice(-n) and prev.slice(0, n)
SliceLast(s, n) == IF Len(s) <= n THEN s ELSE SubSeq(s, Len(s) - n + 1, Len(s))

SliceFirst(s, n) == IF Len(s) <= n THEN s ELSE SubSeq(s, 1, n)

\* ------------------------------------------------------------------------
\* Data generator
\* ------------------------------------------------------------------------
ParamIndex(key) == CHOOSE i \in 1..NumParams : PARAM_KEYS[i] = key

HasFault(fault) == fault.name # "none"

\* Position, among the draws of one generatePoint call, of the noise draw of
\* the i-th parameter: the driver of the active fault takes a second draw.
NoiseDraw(i, fault) ==
  IF HasFault(fault) /\ ParamIndex(fault.param) < i THEN i + 1 ELSE i

\* Math.random() calls made by one generatePoint call
DrawsPerPoint(fault) == IF HasFault(fault) THEN NumParams + 1 ELSE NumParams

\* faulty variant: the noise spans four standard deviations either way,
\*   (Math.random() - 0.5) * 8 * cfg.std
ValMicroWide(key, fault, rNoise, rMag) ==
  LET cfg == PARAMS[key]
      base == cfg.mean * 1000 + (2 * rNoise - 10000) * (cfg.std \div 10) * 4
  IN  IF fault.param = key
        THEN base + (fault.delta \div 20) * (15000 + rMag)
        ELSE base

\* val of generatePoint, in millionths:
\*   cfg.mean + (Math.random() - 0.5) * 2 * cfg.std
\*   [+ activeFault.delta * (0.75 + Math.random() * 0.5)]
\* rNoise and rMag are the draws in ten-thousandths.
ValMicro(key, fault, rNoise, rMag) ==
  LET cfg == PARAMS[key]
      base == cfg.mean * 1000 + (2 * rNoise - 10000) * (cfg.std \div 10)
  IN  IF fault.param = key
        THEN base + (fault.delta \div 20) * (15000 + rMag)
        ELSE base

\* val of the i-th parameter when the call's draws are draw[1], draw[2], ...
ValOf(i, fault, draw) ==
  ValMicro(PARAM_KEYS[i], fault,
           draw[NoiseDraw(i, fault)], draw[NoiseDraw(i, fault) + 1])

\* val > cfg.ucl || val < cfg.lcl, on the unrounded val
OutOfControl(key, valMicro) ==
  \/ valMicro > PARAMS[key].ucl * 1000
  \/ valMicro < PARAMS[key].lcl * 1000

\* The joint statistic sum_k ((point[k] - mean_k) / std_k)^2 of the rounded
\* readings, exactly: z_k = n_k / 120000 with n_k = dev_k * (120000 / std_k),
\* and the sum of the n_k^2 is returned as [hi, lo], hi * 10^6 + lo.
T2Exact(reading) ==
  LET n == [i \in 1..NumParams |->
              Abs(reading[PARAM_KEYS[i]] - PARAMS[PARAM_KEYS[i]].mean)
                * (120000 \div PARAMS[PARAM_KEYS[i]].std)]
      a == [i \in 1..NumParams |-> n[i] \div 1000]
      b == [i \in 1..NumParams |-> n[i] % 1000]
      top == SumTo([i \in 1..NumParams |-> a[i] * a[i]], NumParams)
      mid == SumTo([i \in 1..NumParams |-> 2 * a[i] * b[i]], NumParams)
      low == SumTo([i \in 1..NumParams |-> b[i] * b[i]], NumParams)
      mid2 == mid + (low \div 1000)
  IN  [hi |-> top + (mid2 \div 1000),
       lo |-> ((mid2 % 1000) * 1000) + (low % 1000)]

\* t2 > limit, limit in thousandths: hi*10^6 + lo > limit * 14400000
T2Greater(t2, limit) ==
  LET whole == (limit * 144) \div 10
      frac == ((limit * 144) % 10) * 100000
  IN  t2.hi > whole \/ (t2.hi = whole /\ t2.lo > frac)

\* parseFloat(t2.toFixed(3)), in thousandths: (hi*10^6 + lo) / 14400000 rounded
T2Fixed3(t2) ==
  LET lo2 == t2.lo + 200000
      hi2 == t2.hi + 7 + (lo2 \div 1000000)
  IN  ((10 * hi2) + ((10 * (lo2 % 1000000)) \div 1000000)) \div 144

\* generatePoint(t, activeFault) when Math.random() returns draw[1], draw[2], ...
generatePoint(t, fault, draw) ==
  LET val == [k \in DOMAIN PARAMS |-> ValOf(ParamIndex(k), fault, draw)]
      reading == [k \in DOMAIN PARAMS |-> RoundDiv(val[k], 1000)]
      t2 == T2Exact(reading)
  IN  [t |-> t,
       reading |-> reading,
       anomaly |-> [k \in DOMAIN PARAMS |-> OutOfControl(k, val[k])],
       t2 |-> T2Fixed3(t2),
       t2_anomaly |-> T2Greater(t2, T2_UCL)]

\* fmt(v, unit): v.toFixed(unit === "mm" ? 3 : 1) followed by the unit
fmt(v, unit) ==
  IF unit = "mm" THEN [digits |-> v, decimals |-> 3, unit |-> unit]
  ELSE [digits |-> RoundDiv(v, 100), decimals |-> 1, unit |-> unit]


\* ------------------------------------------------------------------------
\* Exact arithmetic on large naturals: a number is the sequence of its
\* base-10000 digits, least significant first
\* ------------------------------------------------------------------------
RECURSIVE BigOf(_)
BigOf(n) == IF n = 0 THEN << >> ELSE << n % 10000 >> \o BigOf(n \div 10000)

\* a * m + carry for a digit m
RECURSIVE BigTimes(_, _, _)
BigTimes(a, m, carry) ==
  IF a = << >> THEN BigOf(carry)
  ELSE LET x == (Head(a) * m) + carry
       IN  << x % 10000 >> \o BigTimes(Tail(a), m, x \div 10000)

RECURSIVE BigAdd(_, _, _)
BigAdd(a, b, carry) ==
  IF a = << >> /\ b = << >> THEN BigOf(carry)
  ELSE LET x == (IF a = << >> THEN 0 ELSE Head(a))
                  + (IF b = << >> THEN 0 ELSE Head(b)) + carry
       IN  << x % 10000 >>
             \o BigAdd(IF a = << >> THEN a ELSE Tail(a),
                       IF b = << >> THEN b ELSE Tail(b), x \div 10000)

RECURSIVE BigMul(_, _)
BigMul(a, b) ==
  IF b = << >> THEN << >>
  ELSE BigAdd(BigTimes(a, Head(b), 0), << 0 >> \o BigMul(a, Tail(b)), 0)

\* without leading zero digits
RECURSIVE BigTrim(_)
BigTrim(a) ==
  IF a = << >> THEN a
  ELSE IF a[Len(a)] = 0 THEN BigTrim(SubSeq(a, 1, Len(a) - 1)) ELSE a

RECURSIVE BigLeqFrom(_, _, _)
BigLeqFrom(a, b, i) ==
  IF i = 0 THEN TRUE
  ELSE IF a[i] # b[i] THEN a[i] < b[i] ELSE BigLeqFrom(a, b, i - 1)

BigLeq(a, b) ==
  LET x == BigTrim(a)
      y == BigTrim(b)
  IN  IF Len(x) # Len(y) THEN Len(x) < Len(y) ELSE BigLeqFrom(x, y, Len(x))

\* ------------------------------------------------------------------------
\* T2 contribution computation, reconstruction-based contribution
\* ------------------------------------------------------------------------
\* z = (point[key] - cfg.mean) / cfg.std as the numerator of z over 120000
ZNum(key, reading) ==
  (reading - PARAMS[key].mean) * (120000 \div PARAMS[key].std)

\* n * n as [hi, lo], hi * 10^6 + lo: z * z over 120000^2
SqExact(n) ==
  LET a == Abs(n) \div 1000
      b == Abs(n) % 1000
      mid2 == (2 * a * b) + ((b * b) \div 1000)
  IN  [hi |-> (a * a) + (mid2 \div 1000),
       lo |-> ((mid2 % 1000) * 1000) + ((b * b) % 1000)]

Plus(x, y) ==
  [hi |-> x.hi + y.hi + ((x.lo + y.lo) \div 1000000),
   lo |-> (x.lo + y.lo) % 1000000]

\* x - y for x >= y
Minus(x, y) ==
  IF x.lo >= y.lo
    THEN [hi |-> x.hi - y.hi, lo |-> x.lo - y.lo]
    ELSE [hi |-> x.hi - y.hi - 1, lo |-> (x.lo + 1000000) - y.lo]

\* parseFloat(x.toFixed(4)) in ten-thousandths, x = (hi*10^6 + lo) / 120000^2
Fixed4(x) ==
  LET lo2 == x.lo + 720000
      hi2 == x.hi + (lo2 \div 1000000)
  IN  ((100 * hi2) + ((lo2 % 1000000) \div 10000)) \div 144

\* Array.prototype.sort((a, b) => b.key - a.key), descending and stable:
\* the indices of the elements in sorted order, given the elements' keys
StableSortDesc(keys) ==
  LET Rank(i) ==
        1 + Cardinality({ j \in 1..Len(keys) : keys[j] > keys[i] })
          + Cardinality({ j \in 1..(i - 1) : keys[j] = keys[i] })
  IN  [p \in 1..Len(keys) |-> CHOOSE i \in 1..Len(keys) : Rank(i) = p]

\* the elements of s in the order of the indices
Permuted(s, order) == [n \in 1..Len(s) |-> s[order[n]]]

\* the array returned by map, sorted on its values
SortedByValue(entries) ==
  Permuted(entries, StableSortDesc([i \in 1..Len(entries) |-> entries[i].value]))

\* faulty variant: entries of equal rbc come out in reverse order
SortedByRbcTiesReversed(entries) ==
  LET Rank(i) ==
        1 + Cardinality({ j \in 1..Len(entries) : entries[j].rbc > entries[i].rbc })
          + Cardinality({ j \in (i + 1)..Len(entries) :
                            entries[j].rbc = entries[i].rbc })
  IN  [p \in 1..Len(entries) |-> entries[CHOOSE i \in 1..Len(entries) : Rank(i) = p]]

SortedByRbc(entries) ==
  Permuted(entries, StableSortDesc([i \in 1..Len(entries) |-> entries[i].rbc]))

\* computeContributions(point): key, value and direction of every entry (the
\* labels, the colour and the rounded z shown beside the bar are left out)
computeContributions(p) ==
  LET entry(key) ==
        LET n == ZNum(key, p.reading[key])
        IN  [key |-> key,
             value |-> Fixed4(SqExact(n)),
             direction |-> IF n > 0 THEN "HIGH" ELSE "LOW"]
  IN  SortedByValue([i \in 1..NumParams |-> entry(PARAM_KEYS[i])])

\* PARAM_KEYS.reduce over the squared z, leaving out the key `skip`
RECURSIVE SumSquares(_, _, _)
SumSquares(p, skip, i) ==
  IF i = 0 THEN [hi |-> 0, lo |-> 0]
  ELSE IF PARAM_KEYS[i] = skip THEN SumSquares(p, skip, i - 1)
  ELSE Plus(SumSquares(p, skip, i - 1),
            SqExact(ZNum(PARAM_KEYS[i], p.reading[PARAM_KEYS[i]])))

\* faulty variant: no variable is reconstructed to nominal
T2WithoutNothing(p, key) == SumSquares(p, "none", NumParams)

\* t2Without of computeRBC: the statistic with `key` reconstructed to nominal
T2Without(p, key) == SumSquares(p, key, NumParams)

\* computeRBC(point)
computeRBC(p) ==
  LET t2Full == SumSquares(p, "none", NumParams)
      entry(key) ==
        [key |-> key, rbc |-> Fixed4(Minus(t2Full, T2Without(p, key)))]
  IN  SortedByRbc([i \in 1..NumParams |-> entry(PARAM_KEYS[i])])

\* ------------------------------------------------------------------------
\* Fault diagnosis engine
\* ------------------------------------------------------------------------
\* c.value of the entry with key k; 0 when the vector has no such entry
\* (norm[k] || 0)
ValueOf(contributions, k) ==
  IF \E i \in 1..Len(contributions) : contributions[i].key = k
    THEN contributions[CHOOSE i \in 1..Len(contributions) :
                         contributions[i].key = k].value
    ELSE 0

\* sum_k fo * ob, sum_k fo * fo and sum_k ob * ob of diagnoseFault, with ob
\* taken before the division by total: total is the same positive number in
\* every ob and cancels in dot / (sqrt(magFault) * sqrt(magObs))
Dot(sig, contributions) ==
  SumTo([i \in 1..NumParams |->
           sig[PARAM_KEYS[i]] * ValueOf(contributions, PARAM_KEYS[i])], NumParams)

MagFault(sig) ==
  SumTo([i \in 1..NumParams |-> sig[PARAM_KEYS[i]] * sig[PARAM_KEYS[i]]], NumParams)

RECURSIVE MagObs(_, _)
MagObs(contributions, i) ==
  IF i = 0 THEN << >>
  ELSE LET v == BigOf(ValueOf(contributions, PARAM_KEYS[i]))
       IN  BigAdd(MagObs(contributions, i - 1), BigMul(v, v), 0)

\* s / 10 <= similarity * 100 + 0.05, that is
\* (2s - 1)^2 * magFault * magObs <= (2000 * dot)^2
ScoreReached(s, fo, dd) ==
  s = 0 \/ BigLeq(BigMul(BigOf(((2 * s) - 1) * ((2 * s) - 1)), fo), dd)

\* the largest score in lo..hi that is reached
RECURSIVE ScoreBetween(_, _, _, _)
ScoreBetween(lo, hi, fo, dd) ==
  IF lo = hi THEN lo
  ELSE LET mid == (lo + hi + 1) \div 2
       IN  IF ScoreReached(mid, fo, dd)
             THEN ScoreBetween(mid, hi, fo, dd)
             ELSE ScoreBetween(lo, mid - 1, fo, dd)

\* faulty variant: no short-circuit for a zero norm: 0 / 0 is NaN (here -1)
ConfidenceUnguarded(sig, contributions) ==
  LET dot == BigOf(Dot(sig, contributions))
      magObs == BigTrim(MagObs(contributions, NumParams))
  IN  IF MagFault(sig) = 0 \/ magObs = << >> THEN -1
      ELSE ScoreBetween(0, 1000,
                        BigMul(BigOf(MagFault(sig)), magObs),
                        BigMul(BigOf(4000000), BigMul(dot, dot)))

\* faulty variant: the dot product is not divided by the norms
ConfidenceOfDot(sig, contributions) ==
  Min(1000, Dot(sig, contributions) \div 10)

\* faulty variant: the norms are used without their square roots,
\* similarity = dot / (magFault * magObs) with ob = value / total, so that
\* s / 10 <= similarity * 100 + 0.05 is
\* (2s - 1) * magFault * magObs <= 200000 * dot * total
RECURSIVE ScoreBetweenNoSqrt(_, _, _, _)
ScoreBetweenNoSqrt(lo, hi, fo, dd) ==
  IF lo = hi THEN lo
  ELSE LET mid == (lo + hi + 1) \div 2
       IN  IF BigLeq(BigMul(BigOf((2 * mid) - 1), fo), dd)
             THEN ScoreBetweenNoSqrt(mid, hi, fo, dd)
             ELSE ScoreBetweenNoSqrt(lo, mid - 1, fo, dd)

ConfidenceNoSqrt(sig, contributions) ==
  LET total == SumTo([i \in 1..NumParams |->
                        ValueOf(contributions, PARAM_KEYS[i])], NumParams)
      magObs == BigTrim(MagObs(contributions, NumParams))
  IN  IF MagFault(sig) = 0 \/ magObs = << >> THEN 0
      ELSE ScoreBetweenNoSqrt(0, 10 * MaxScore,
                              BigMul(BigOf(MagFault(sig)), magObs),
                              BigMul(BigOf(200000),
                                     BigMul(BigOf(Dot(sig, contributions)),
                                            BigOf(total))))

\* confidence of one fault, in tenths:
\*   similarity = magFault && magObs ? dot / (sqrt(magFault) * sqrt(magObs)) : 0
\*   parseFloat((similarity * 100).toFixed(1))
Confidence(sig, contributions) ==
  LET dot == BigOf(Dot(sig, contributions))
      magObs == BigTrim(MagObs(contributions, NumParams))
  IN  IF MagFault(sig) = 0 \/ magObs = << >> THEN 0
      ELSE ScoreBetween(0, MaxScore,
                        BigMul(BigOf(MagFault(sig)), magObs),
                        BigMul(BigOf(4000000), BigMul(dot, dot)))

\* faulty variant: signatures of equal score come out in reverse order
SortTiesReversed(scores) ==
  LET Rank(i) ==
        1 + Cardinality({ j \in 1..Len(scores) :
                            scores[j].confidence > scores[i].confidence })
          + Cardinality({ j \in (i + 1)..Len(scores) :
                            scores[j].confidence = scores[i].confidence })
  IN  [p \in 1..Len(scores) |-> scores[CHOOSE i \in 1..Len(scores) : Rank(i) = p]]

\* scores.sort((a, b) => b.confidence - a.confidence)
SortScores(scores) ==
  Permuted(scores, StableSortDesc([i \in 1..Len(scores) |-> scores[i].confidence]))

\* diagnoseFault(contributions), the array FAULT_MODES holding the named
\* faults in this order
diagnoseFault(contributions, faults) ==
  SortScores([i \in 1..Len(faults) |->
                [name |-> faults[i],
                 confidence |-> Confidence(SignatureOf(faults[i]), contributions)]])

\* ------------------------------------------------------------------------
\* ExtrusionAnomalyMonitor: the stream controller
\* ------------------------------------------------------------------------
VARIABLES
  data,            \* useState([]): the history window
  running,         \* useState(false)
  activeFault,     \* useState(null)
  faultCountdown,  \* useState(0)
  alarmLog,        \* useState([])
  tickCount,       \* useState(0)
  timerRef,        \* useRef(null): id of the interval last armed, 0 for null
  tRef,            \* useRef(0)
  faultRef,        \* useRef(null)
  faultCdRef,      \* useRef(0)
  timers,          \* the intervals armed in the host (setInterval / clearInterval)
  nextTimerId,     \* the id the host gives the next interval
  effectPending,   \* a render changed `running` and its effect has not run yet
  rng,             \* hidden state of Math.random()
  lastOp,          \* history: the operation that led to this state
  clicks,          \* history: button clicks since construction
  lastInject,      \* history: the last accepted inject since the last reset
  lastStop,        \* history: the last stop since the last reset
  resets,          \* history: resets since construction
  lastBias,        \* history: the parameter biased in the latest snapshot
  input,           \* analysis: the draws, or the vector, the functions are given
  point,           \* analysis: latestPoint, the snapshot handed to the panels
  contributions,   \* analysis: what computeContributions returned last
  rbc,             \* analysis: what computeRBC returned last
  diagnoses,       \* analysis: what diagnoseFault returned last
  catalog,         \* analysis: the names of the array FAULT_MODES, in its order
  calls,           \* history: calls of the analysis functions
  diagnosed,       \* history: calls of diagnoseFault among them
  lastCall         \* history: the last analysis step

reactState == << data, running, activeFault, faultCountdown, alarmLog, tickCount >>

refs == << timerRef, tRef, faultRef, faultCdRef >>

host == << timers, nextTimerId, effectPending, rng >>

history == << lastOp, clicks, lastInject, lastStop, resets, lastBias >>

analysis ==
  << input, point, contributions, rbc, diagnoses, catalog, calls, diagnosed, lastCall >>

vars == << reactState, refs, host, history, analysis >>

\* no input: the analysis functions are not exercised
NoInput == [kind |-> "none", fault |-> NoFault, draws |-> << >>, vector |-> << >>]

\* latestPoint while data is empty (undefined)
NoPoint ==
  [t |-> 0,
   reading |-> [k \in DOMAIN PARAMS |-> 0],
   anomaly |-> [k \in DOMAIN PARAMS |-> FALSE],
   t2 |-> 0,
   t2_anomaly |-> FALSE]

\* history record of "no inject since the last reset"
NoInject == [fault |-> NoFault, at |-> 0, over |-> NoFault, overCd |-> 0]

\* history record of "no stop since the last reset"
NoStop == [at |-> -1, cd |-> 0, fault |-> NoFault]

\* capacity of the history window: slice(-120); of the alarm log: slice(0, 80)
HISTORY_CAP == 120

ALARM_CAP == 80

\* the component after its first render and mount effect (running is false:
\* the effect's clearInterval(null) arms nothing)
InitWith(inputs) ==
  /\ data = << >>
  /\ running = FALSE
  /\ activeFault = NoFault
  /\ faultCountdown = 0
  /\ alarmLog = << >>
  /\ tickCount = 0
  /\ timerRef = 0
  /\ tRef = 0
  /\ faultRef = NoFault
  /\ faultCdRef = 0
  /\ timers = {}
  /\ nextTimerId = 1
  /\ effectPending = FALSE
  /\ rng = 0
  /\ lastOp = "init"
  /\ clicks = 0
  /\ lastInject = NoInject
  /\ lastStop = NoStop
  /\ resets = 0
  /\ lastBias = "none"
  /\ input \in inputs
  /\ point = NoPoint
  /\ contributions = << >>
  /\ rbc = << >>
  /\ diagnoses = << >>
  /\ catalog = CatalogNames
  /\ calls = 0
  /\ diagnosed = 0
  /\ lastCall = "none"

Init == InitWith({NoInput})

\* A click is dispatched as a task of its own.  The render it causes and the
\* passive effects of that render are flushed before the task ends (React
\* 18+, the version the README names, with createRoot), so neither a click
\* nor a timer callback falls between a render and its effects.
CanClick(maxClicks) == clicks < maxClicks /\ ~effectPending

\* faulty variant: the branch for a countdown of 1 is missing
CountdownStepStuck(cd) == IF cd > 1 THEN cd - 1 ELSE cd

\* fault countdown step of tick: the refs after lines 622-630
CountdownStep(cd) == IF cd > 1 THEN cd - 1 ELSE 0

\* faulty variant: the ref of the fault is not cleared when the countdown ends
FaultAfterCountdownKeeps(fault, cd) == fault

\* faultRef.current after lines 622-630
FaultAfterCountdown(fault, cd) == IF cd = 1 THEN NoFault ELSE fault

\* faulty variant: an event is pushed for every parameter, flagged or not
NewAlarmsUnconditional(pt) ==
  [i \in 1..NumParams |->
    [t |-> pt.t, param |-> PARAMS[PARAM_KEYS[i]].label,
     val |-> fmt(pt.reading[PARAM_KEYS[i]], PARAMS[PARAM_KEYS[i]].unit),
     id |-> << pt.t, PARAM_KEYS[i] >>]]

\* newAlarms of tick for snapshot pt
NewAlarms(pt) ==
  LET flagged == SelectSeq(PARAM_KEYS, LAMBDA k : pt.anomaly[k])
      perParam == [i \in 1..Len(flagged) |->
                    [t |-> pt.t, param |-> PARAMS[flagged[i]].label,
                     val |-> fmt(pt.reading[flagged[i]], PARAMS[flagged[i]].unit),
                     id |-> << pt.t, flagged[i] >>]]
  IN  IF pt.t2_anomaly
        THEN Append(perParam,
                    [t |-> pt.t, param |-> "T2 Multivariate",
                     val |-> [digits |-> RoundDiv(pt.t2, 10), decimals |-> 2, unit |-> ""],
                     id |-> << pt.t, "t2" >>])
        ELSE perParam

\* faulty variant: slice(0, 120) keeps the oldest snapshots
DataAfterKeepsOldest(prev, pt) == SliceFirst(Append(prev, pt), HISTORY_CAP)

\* setData(prev => [...prev, pt].slice(-120))
DataAfter(prev, pt) == SliceLast(Append(prev, pt), HISTORY_CAP)

\* faulty variant: slice(-80) drops the newest events
AlarmLogDropsNewest(prev, newAlarms) ==
  IF Len(newAlarms) > 0 THEN SliceLast(newAlarms \o prev, ALARM_CAP) ELSE prev

\* if (newAlarms.length) setAlarmLog(prev => [...newAlarms, ...prev].slice(0, 80))
AlarmLogAfter(prev, newAlarms) ==
  IF Len(newAlarms) > 0 THEN SliceFirst(newAlarms \o prev, ALARM_CAP) ELSE prev

\* tick: the interval callback
tick ==
  LET t == tRef + 1
      cd == CountdownStep(faultCdRef)
      fault == FaultAfterCountdown(faultRef, faultCdRef)
  IN  \E pt \in {generatePoint(t, fault, DrawsAt(rng))} :
      /\ tRef' = t
      /\ faultCdRef' = cd
      /\ faultRef' = fault
      /\ faultCountdown' = IF faultCdRef >= 1 THEN cd ELSE faultCountdown
      /\ activeFault' = IF faultCdRef = 1 THEN NoFault ELSE activeFault
      /\ data' = DataAfter(data, pt)
      /\ alarmLog' = AlarmLogAfter(alarmLog, NewAlarms(pt))
      /\ tickCount' = t
      /\ rng' = (rng + DrawsPerPoint(fault)) % RandPeriod
      /\ lastBias' = fault.param
      /\ lastOp' = "tick"
      /\ UNCHANGED << running, timerRef, timers, nextTimerId, effectPending,
                      clicks, lastInject, lastStop, resets >>

\* an armed interval fires (a task of its own: no effect is pending)
TimerFires(maxTick) ==
  /\ timers # {}
  /\ ~effectPending
  /\ tRef < maxTick
  /\ tick
  /\ UNCHANGED analysis

\* faulty variant: the effect neither cleans up nor clears the interval
TimersAfterEffectLeak ==
  IF running THEN timers \cup {nextTimerId} ELSE timers

\* useEffect(..., [running, tick]): the cleanup of the previous run, then
\*   if (running) timerRef.current = setInterval(tick, 800)
\*   else clearInterval(timerRef.current)
TimersAfterEffect ==
  IF running THEN (timers \ {timerRef}) \cup {nextTimerId}
  ELSE timers \ {timerRef}

RunEffect ==
  /\ effectPending
  /\ timers' = TimersAfterEffect
  /\ timerRef' = IF running THEN nextTimerId ELSE timerRef
  /\ nextTimerId' = IF running THEN nextTimerId + 1 ELSE nextTimerId
  /\ effectPending' = FALSE
  /\ UNCHANGED << reactState, tRef, faultRef, faultCdRef, rng, history, analysis >>

\* faulty variant: stopping also clears the history
ToggleRunningClears ==
  /\ running' = ~running
  /\ effectPending' = TRUE
  /\ clicks' = clicks + 1
  /\ data' = IF running THEN << >> ELSE data
  /\ UNCHANGED << activeFault, faultCountdown, alarmLog, tickCount,
                  refs, timers, nextTimerId, rng, lastInject, resets, lastBias >>

\* faulty variant: stopping also drops the active fault
ToggleRunningDropsFault ==
  /\ running' = ~running
  /\ effectPending' = TRUE
  /\ clicks' = clicks + 1
  /\ faultRef' = IF running THEN NoFault ELSE faultRef
  /\ faultCdRef' = IF running THEN 0 ELSE faultCdRef
  /\ activeFault' = IF running THEN NoFault ELSE activeFault
  /\ faultCountdown' = IF running THEN 0 ELSE faultCountdown
  /\ UNCHANGED << data, alarmLog, tickCount, timerRef, tRef,
                  timers, nextTimerId, rng, lastInject, resets, lastBias >>

\* START/STOP button: setRunning(r => !r); the render schedules the effect
ToggleRunning ==
  /\ running' = ~running
  /\ effectPending' = TRUE
  /\ clicks' = clicks + 1
  /\ UNCHANGED << data, activeFault, faultCountdown, alarmLog, tickCount,
                  refs, timers, nextTimerId, rng, lastInject, resets, lastBias >>

Start(maxClicks) ==
  /\ CanClick(maxClicks)
  /\ ~running
  /\ ToggleRunning
  /\ lastOp' = "start"
  /\ UNCHANGED << lastStop, analysis >>

Stop(maxClicks) ==
  /\ CanClick(maxClicks)
  /\ running
  /\ ToggleRunning
  /\ lastOp' = "stop"
  /\ lastStop' = [at |-> tRef, cd |-> faultCdRef, fault |-> faultRef]
  /\ UNCHANGED analysis

\* faulty variant: a running countdown longer than the new fault's is kept
InjectCountdownKeepsLonger(fault) ==
  IF faultCdRef > fault.duration THEN faultCdRef ELSE fault.duration

\* the countdown injectFault arms
InjectCountdown(fault) == fault.duration

\* injectFault(fault)
injectFault(fault) ==
  /\ faultRef' = fault
  /\ faultCdRef' = InjectCountdown(fault)
  /\ activeFault' = fault
  /\ faultCountdown' = InjectCountdown(fault)

\* faulty variant: the click is not guarded by running
InjectAlways == TRUE

\* INJECT FAULT button: onClick={() => running && injectFault(fault)}
InjectAccepted == running

InjectClick(fault, maxClicks) ==
  /\ CanClick(maxClicks)
  /\ clicks' = clicks + 1
  /\ IF InjectAccepted
       THEN /\ injectFault(fault)
            /\ lastInject' = [fault |-> fault, at |-> tRef,
                              over |-> faultRef, overCd |-> faultCdRef]
            /\ lastOp' = "inject"
       ELSE /\ UNCHANGED << faultRef, faultCdRef, activeFault, faultCountdown,
                            lastInject >>
            /\ lastOp' = "inject_ignored"
  /\ UNCHANGED << data, running, alarmLog, tickCount, timerRef, tRef,
                  host, lastStop, resets, lastBias, analysis >>

\* faulty variant: the refs of the fault are not cleared
resetKeepsFaultRefs ==
  /\ running' = FALSE
  /\ timers' = timers \ {timerRef}
  /\ data' = << >>
  /\ alarmLog' = << >>
  /\ activeFault' = NoFault
  /\ faultCountdown' = 0
  /\ tRef' = 0
  /\ UNCHANGED << faultRef, faultCdRef >>
  /\ tickCount' = 0

\* reset: setRunning(false); clearInterval(timerRef.current); ...
TimersAfterReset == timers \ {timerRef}

reset ==
  /\ running' = FALSE
  /\ timers' = TimersAfterReset
  /\ data' = << >>
  /\ alarmLog' = << >>
  /\ activeFault' = NoFault
  /\ faultCountdown' = 0
  /\ tRef' = 0
  /\ faultRef' = NoFault
  /\ faultCdRef' = 0
  /\ tickCount' = 0

ResetClick(maxClicks) ==
  /\ CanClick(maxClicks)
  /\ reset
  /\ effectPending' = running
  /\ clicks' = clicks + 1
  /\ lastOp' = "reset"
  /\ lastInject' = NoInject
  /\ lastStop' = NoStop
  /\ resets' = resets + 1
  /\ lastBias' = "none"
  /\ UNCHANGED << timerRef, nextTimerId, rng, analysis >>

\* ------------------------------------------------------------------------
\* Specification: every interleaving of clicks and timer callbacks
\* ------------------------------------------------------------------------
StartStep == Start(MaxClicks)

StopStep == Stop(MaxClicks)

InjectStep == \E f \in FaultSet : InjectClick(f, MaxClicks)

ResetStep == ResetClick(MaxClicks)

TickStep == TimerFires(MaxTick)

Next ==
  \/ StartStep
  \/ StopStep
  \/ InjectStep
  \/ ResetStep
  \/ TickStep
  \/ RunEffect

Spec == Init /\ [][Next]_vars

\* ------------------------------------------------------------------------
\* Specification of the long run: the same operations, over enough ticks to
\* fill the history window and the alarm log; the operator clicks once at
\* tick 0 and then at a few later ticks, and injects the longest fault.
\* ------------------------------------------------------------------------
LongClickTime ==
  \/ tRef = 0 /\ clicks = 0
  \/ tRef >= LongFrom /\ (tRef - LongFrom) % LongStride = 0

LongFaults == { FAULT_MODES[1] }

StartLong == LongClickTime /\ Start(MaxClicksLong)

StopLong == LongClickTime /\ Stop(MaxClicksLong)

InjectLong == LongClickTime /\ \E f \in LongFaults : InjectClick(f, MaxClicksLong)

ResetLong == LongClickTime /\ ResetClick(MaxClicksLong)

TickLong == TimerFires(MaxTickLong)

NextLong ==
  \/ StartLong
  \/ StopLong
  \/ InjectLong
  \/ ResetLong
  \/ TickLong
  \/ RunEffect

SpecLong == Init /\ [][NextLong]_vars

\* ------------------------------------------------------------------------
\* Specification of the analysis: generatePoint, computeContributions,
\* computeRBC and diagnoseFault applied to inputs drawn from bounded sets.
\* An input is either the draws of one generatePoint call under a fault
\* (the snapshot then goes to the two panels), or a contribution vector
\* handed to diagnoseFault.
\* ------------------------------------------------------------------------
\* draws of the driver's noise, of the fault's magnitude, of one other
\* parameter's noise; every remaining draw is 0.5
DriverNoise == { 5000, 8252, 9999 }

Magnitudes == { 0, 1245, 9999 }

OtherNoise == { 0, 5000, 5100 }

\* the parameter, other than the driver, whose noise draw varies
OtherIndex(fault) == IF fault.param = PARAM_KEYS[1] THEN 2 ELSE 1

ProbeDraws(fault, rNoise, rMag, rOther) ==
  [p \in 1..(NumParams + 1) |->
    IF HasFault(fault) /\ p = ParamIndex(fault.param) THEN rNoise
    ELSE IF HasFault(fault) /\ p = ParamIndex(fault.param) + 1 THEN rMag
    ELSE IF p = NoiseDraw(OtherIndex(fault), fault) THEN rOther
    ELSE 5000]

DrawInputs ==
  { [kind |-> "draws", fault |-> f,
     draws |-> ProbeDraws(f, rn, rm, ro), vector |-> << >>] :
      f \in FaultSet \cup {NoFault},
      rn \in DriverNoise, rm \in Magnitudes, ro \in OtherNoise }

\* c times the expected vector of FAULT_MODES[i]
ScaledSignature(c, i) ==
  [j \in 1..NumParams |->
    [key |-> PARAM_KEYS[j], value |-> c * Signatures[i][PARAM_KEYS[j]]]]

\* the vector with a at parameter i and b at parameter j, 0 elsewhere
SmallVector(i, a, j, b) ==
  [n \in 1..NumParams |->
    [key |-> PARAM_KEYS[n],
     value |-> (IF n = i THEN a ELSE 0) + (IF n = j THEN b ELSE 0)]]

VectorInputs ==
  { [kind |-> "vector", fault |-> NoFault, draws |-> << >>, vector |-> v] :
      v \in { ScaledSignature(c, i) : c \in 1..MaxScale, i \in 1..Len(FAULT_MODES) }
             \cup { SmallVector(i, a, j, b) :
                      i \in 1..NumParams, j \in 1..NumParams,
                      a \in 0..MaxContribution, b \in 0..MaxContribution } }

\* the draws that leave the driver of a fault nearest to its mean (the noise
\* at the end that works against delta, the smallest magnitude), with the
\* noise of the parameters in `others` at its end and of the rest at 0.5
WeakDraws(fault, others) ==
  [p \in 1..(NumParams + 1) |->
    IF p = ParamIndex(fault.param) THEN (IF fault.delta < 0 THEN 9999 ELSE 0)
    ELSE IF p = ParamIndex(fault.param) + 1 THEN 0
    ELSE IF \E i \in others : p = NoiseDraw(i, fault) THEN 0
    ELSE 5000]

WeakInputs ==
  UNION { { [kind |-> "draws", fault |-> f,
             draws |-> WeakDraws(f, others), vector |-> << >>] :
              others \in SUBSET { i \in 1..NumParams : PARAM_KEYS[i] # f.param } } :
          f \in FaultSet }

InitAnalysis == InitWith(DrawInputs \cup VectorInputs \cup WeakInputs)

\* the data generator is called with the input's draws
Generate ==
  /\ input.kind = "draws"
  /\ point = NoPoint
  /\ point' = generatePoint(1, input.fault, input.draws)
  /\ lastCall' = "generatePoint"
  /\ UNCHANGED << input, contributions, rbc, diagnoses, catalog, calls, diagnosed >>
  /\ UNCHANGED << reactState, refs, host, history >>

\* faulty variant: FAULT_MODES itself is sorted
CatalogSortedInPlace(faults, ranked) == [i \in 1..Len(ranked) |-> ranked[i].name]

\* FAULT_MODES after diagnoseFault: map builds the array that is sorted
CatalogAfterDiagnose(faults, ranked) == faults

\* ContributionPanel({ latestPoint }): nothing without a snapshot, else
\* computeContributions(latestPoint) and computeRBC(latestPoint)
ContributionPanel ==
  /\ point # NoPoint
  /\ calls < MaxCalls
  /\ contributions' = computeContributions(point)
  /\ rbc' = computeRBC(point)
  /\ calls' = calls + 1
  /\ lastCall' = "ContributionPanel"
  /\ UNCHANGED << input, point, diagnoses, catalog, diagnosed >>
  /\ UNCHANGED << reactState, refs, host, history >>

\* FaultDiagnosisPanel({ latestPoint }): nothing without a snapshot, else
\* diagnoseFault(computeContributions(latestPoint))
FaultDiagnosisPanel ==
  /\ point # NoPoint
  /\ calls < MaxCalls
  /\ \E c \in {computeContributions(point)} :
       \E ranked \in {diagnoseFault(c, catalog)} :
         /\ contributions' = c
         /\ diagnoses' = ranked
         /\ catalog' = CatalogAfterDiagnose(catalog, ranked)
  /\ calls' = calls + 1
  /\ diagnosed' = diagnosed + 1
  /\ lastCall' = "FaultDiagnosisPanel"
  /\ UNCHANGED << input, point, rbc >>
  /\ UNCHANGED << reactState, refs, host, history >>

\* diagnoseFault called on the input's contribution vector
DiagnoseVector ==
  /\ input.kind = "vector"
  /\ calls < MaxCalls
  /\ \E ranked \in {diagnoseFault(input.vector, catalog)} :
       /\ diagnoses' = ranked
       /\ catalog' = CatalogAfterDiagnose(catalog, ranked)
  /\ contributions' = input.vector
  /\ calls' = calls + 1
  /\ diagnosed' = diagnosed + 1
  /\ lastCall' = "diagnoseFault"
  /\ UNCHANGED << input, point, rbc >>
  /\ UNCHANGED << reactState, refs, host, history >>

NextAnalysis ==
  \/ Generate
  \/ ContributionPanel
  \/ FaultDiagnosisPanel
  \/ DiagnoseVector

SpecAnalysis == InitAnalysis /\ [][NextAnalysis]_vars

\* ------------------------------------------------------------------------
\* Claims about the stream controller
\* ------------------------------------------------------------------------
Injected == HasFault(lastInject.fault)

\* ticks since the last accepted inject
TicksSinceInject == tRef - lastInject.at

LatestPoint == data[Len(data)]

\* C1: after an accepted inject, with no later inject or reset, exactly the
\* next N snapshots (N = fault.duration) carry the fault's bias on its driver
\* parameter, and the (N+1)-th and all later snapshots carry no bias.
C1_InjectArmsNSnapshots ==
  (lastOp = "tick" /\ Injected) =>
    IF TicksSinceInject <= lastInject.fault.duration
      THEN lastBias = lastInject.fault.param
      ELSE lastBias = "none"

\* C2: with n ticks since the last reset, the history window holds exactly
\* the snapshots with indices max(1, n-119) .. n in increasing order; its
\* length is min(n, 120), and the last index equals the tick counter.
C2_HistoryWindow ==
  /\ Len(data) = Min(tRef, HISTORY_CAP)
  /\ Len(data) <= HISTORY_CAP
  /\ \A i \in 1..Len(data) : data[i].t = Max(1, tRef - (HISTORY_CAP - 1)) + i - 1
  /\ Len(data) > 0 => LatestPoint.t = tickCount
  /\ tickCount = tRef

\* the window has slid: more ticks than it holds, around a stop and a start
C2_Witness ==
  /\ lastOp = "tick"
  /\ tRef > HISTORY_CAP
  /\ Len(data) = HISTORY_CAP
  /\ data[1].t = tRef - (HISTORY_CAP - 1)
  /\ lastStop.at >= 0

\* the alarm log is most-recent-first
LogNewestFirst ==
  \A i \in 1..(Len(alarmLog) - 1) : alarmLog[i].t >= alarmLog[i + 1].t

\* number of flags set in a snapshot: the events its tick gives rise to
FlagCount(pt) ==
  Cardinality({ k \in DOMAIN PARAMS : pt.anomaly[k] })
    + (IF pt.t2_anomaly THEN 1 ELSE 0)

\* a tick puts all the events of its snapshot in front of the newest old
\* events, up to the capacity; any other step leaves the log or empties it
LogStep ==
  IF tRef' = tRef + 1
    THEN LET m == FlagCount(data'[Len(data')])
         IN  /\ Len(alarmLog') = Min(Len(alarmLog) + m, ALARM_CAP)
             /\ \A i \in 1..m : alarmLog'[i].t = tRef'
             /\ SubSeq(alarmLog', m + 1, Len(alarmLog'))
                  = SliceFirst(alarmLog, ALARM_CAP - m)
    ELSE \/ alarmLog' = alarmLog
         \/ alarmLog' = << >> /\ lastOp' = "reset"

\* C3: the alarm log has at most 80 entries and is most-recent-first; when
\* appending would exceed 80 entries, exactly the oldest ones are dropped.
C3_AlarmLogBounded ==
  /\ [](Len(alarmLog) <= ALARM_CAP /\ LogNewestFirst)
  /\ [][LogStep]_vars

\* alarm events the snapshots of the window gave rise to
EventsOfWindow ==
  Cardinality({ i \in 1..Len(data) : data[i].t2_anomaly })
    + Cardinality({ p \in (1..Len(data)) \X (DOMAIN PARAMS) : data[p[1]].anomaly[p[2]] })

\* the log is full and events of the window have been dropped from it
C3_Witness ==
  /\ lastOp = "tick"
  /\ Len(alarmLog) = ALARM_CAP
  /\ alarmLog[1].t = tRef
  /\ EventsOfWindow > ALARM_CAP

\* C4: reset, from any state, leaves the controller not running with no
\* timer armed, history and alarm log empty, no active fault, countdown 0
\* and tick counter 0; the first snapshot after a later start has index 1
\* and carries no fault bias (none, that is, of a fault injected before the
\* reset: a fault injected after the start is a new one).
C4_ResetClears ==
  /\ lastOp = "reset" =>
       /\ ~running
       /\ timers = {}
       /\ data = << >>
       /\ alarmLog = << >>
       /\ activeFault = NoFault /\ faultRef = NoFault
       /\ faultCountdown = 0 /\ faultCdRef = 0
       /\ tickCount = 0 /\ tRef = 0
  /\ (resets > 0 /\ lastOp = "tick" /\ tRef = 1) =>
       /\ Len(data) = 1
       /\ LatestPoint.t = 1
       /\ ~Injected => lastBias = "none"

\* the first snapshot after a reset and a start
C4_Witness ==
  /\ resets > 0
  /\ lastOp = "tick"
  /\ running
  /\ timerRef >= 2
  /\ Len(data) = 1
  /\ LatestPoint.t = 1

\* C5: stop leaves the history window, the alarm log and the tick counter
\* as they were; after a later start the next snapshot is appended to the
\* preserved history with the next consecutive index.
StopPreserves ==
  lastOp' = "stop" =>
    /\ data' = data
    /\ alarmLog' = alarmLog
    /\ tickCount' = tickCount
    /\ tRef' = tRef

ResumeAppends ==
  (tRef' = tRef + 1 /\ lastStop.at >= 0) =>
    /\ data' = SliceLast(data \o << data'[Len(data')] >>, HISTORY_CAP)
    /\ data'[Len(data')].t = tickCount + 1
    /\ (lastStop.at = tRef /\ data # << >>) =>
         data'[Len(data')].t = LatestPoint.t + 1

C5_StopPreserves == [][StopPreserves /\ ResumeAppends]_vars

\* a snapshot appended right after a stop and a start, behind older ones
C5_Witness ==
  /\ lastOp = "tick"
  /\ lastStop.at >= 1
  /\ tRef = lastStop.at + 1
  /\ Len(data) = tRef

\* C6: once stop or reset has been requested, no tick is processed until
\* the next start: history, alarm log, countdown and tick counter stay as
\* they are, however the timer callback falls around the request and the
\* effect that clears the timer.
NoTickWhileStopped ==
  (~running /\ ~running' /\ lastOp' # "reset") =>
    UNCHANGED << data, alarmLog, faultCdRef, faultCountdown, tRef, tickCount >>

C6_StopCancelsTicks == [][NoTickWhileStopped]_vars

\* stop requested, the interval still armed, its clearing effect not yet run
C6_Witness ==
  /\ lastOp = "stop"
  /\ ~running
  /\ effectPending
  /\ timers # {}
  /\ Len(data) > 0

\* C7: an inject requested while the controller is not running changes
\* neither the active fault, the countdown, the history, the alarm log nor
\* the tick counter.
InjectWhileStoppedIgnored ==
  (~running /\ clicks' = clicks + 1 /\ lastOp' \in {"inject", "inject_ignored"}) =>
    UNCHANGED << activeFault, faultRef, faultCountdown, faultCdRef,
                 data, alarmLog, tickCount, tRef >>

C7_InjectNeedsRunning == [][InjectWhileStoppedIgnored]_vars

\* an inject clicked on a stopped controller that holds history
C7_Witness ==
  /\ lastOp = "inject_ignored"
  /\ ~running
  /\ Len(data) > 0

\* C8: injecting B while A is active replaces A by B and sets the countdown
\* to B.duration whatever A's countdown was; every later snapshot carries at
\* most B's bias.
C8_ReinjectOverrides ==
  /\ lastOp = "inject" =>
       /\ faultRef = lastInject.fault /\ activeFault = lastInject.fault
       /\ faultCdRef = lastInject.fault.duration
       /\ faultCountdown = lastInject.fault.duration
  /\ (lastOp = "tick" /\ Injected) =>
       /\ lastBias \in {"none", lastInject.fault.param}
       /\ faultRef \in {NoFault, lastInject.fault}
       /\ faultCdRef <= lastInject.fault.duration

\* B's bias in a snapshot after B replaced a different, longer-lived A
C8_Witness ==
  /\ lastOp = "tick"
  /\ HasFault(lastInject.over)
  /\ lastInject.over.param # lastInject.fault.param
  /\ lastInject.overCd > lastInject.fault.duration
  /\ lastBias = lastInject.fault.param

\* C9: while a fault is active the countdown decreases by exactly 1 on every
\* tick; with no further inject the fault is cleared after at most
\* fault.duration ticks, and never re-arms by itself.
CountdownTick ==
  tRef' = tRef + 1 =>
    /\ faultCdRef > 0 => faultCdRef' = faultCdRef - 1
    /\ faultCdRef = 0 => faultCdRef' = 0 /\ faultRef' = NoFault

OnlyInjectArms ==
  (faultCdRef' > faultCdRef \/ (faultRef' # faultRef /\ HasFault(faultRef')))
    => lastOp' = "inject"

CountdownOfInject ==
  Injected => faultCdRef = Max(0, lastInject.fault.duration - TicksSinceInject)

CountdownClears ==
  /\ faultCdRef = 0 <=> faultRef = NoFault
  /\ faultCountdown = faultCdRef
  /\ activeFault = faultRef

C9_CountdownExpires ==
  /\ [](CountdownOfInject /\ CountdownClears)
  /\ [][CountdownTick /\ OnlyInjectArms]_vars

\* ticks go on after the fault has run out, and it stays cleared
C9_Witness ==
  /\ lastOp = "tick"
  /\ Injected
  /\ TicksSinceInject > lastInject.fault.duration
  /\ faultCdRef = 0
  /\ faultRef = NoFault
  /\ running

\* C10: every alarm event is justified by its tick's snapshot: a parameter
\* event of tick t only if that parameter's flag is set in snapshot t, at
\* most one event per parameter and tick, a joint event of tick t iff the
\* joint flag is set in snapshot t (while the log retains tick t), and a
\* tick whose snapshot has no flag set leaves the log unchanged.
EventKey(e) == e.id[2]

FlagOf(pt, key) == IF key = "t2" THEN pt.t2_anomaly ELSE pt.anomaly[key]

EventsJustified ==
  \A i \in 1..Len(alarmLog) : \A j \in 1..Len(data) :
    data[j].t = alarmLog[i].t =>
      /\ alarmLog[i].id[1] = alarmLog[i].t
      /\ FlagOf(data[j], EventKey(alarmLog[i]))

EventsUnique ==
  \A i, j \in 1..Len(alarmLog) : alarmLog[i].id = alarmLog[j].id => i = j

\* no event of tick t has been dropped from the log
LogRetains(t) == Len(alarmLog) < ALARM_CAP \/ t > alarmLog[Len(alarmLog)].t

JointLogged ==
  \A j \in 1..Len(data) :
    (data[j].t2_anomaly /\ LogRetains(data[j].t)) =>
      \E i \in 1..Len(alarmLog) : alarmLog[i].id = << data[j].t, "t2" >>

AnyFlag(pt) == pt.t2_anomaly \/ \E k \in DOMAIN PARAMS : pt.anomaly[k]

QuietTick ==
  (tRef' = tRef + 1 /\ ~AnyFlag(data'[Len(data')])) => alarmLog' = alarmLog

C10_AlarmsJustified ==
  /\ [](EventsJustified /\ EventsUnique /\ JointLogged)
  /\ [][QuietTick]_vars

\* the log holds a driver event of a tick without a joint event, and both
\* events of a later tick
C10_Witness ==
  /\ lastOp = "tick"
  /\ Len(alarmLog) >= 3
  /\ alarmLog[1].t = tRef /\ EventKey(alarmLog[1]) # "t2"
  /\ alarmLog[2].t = tRef /\ EventKey(alarmLog[2]) = "t2"
  /\ \E j \in 1..Len(data) :
       /\ ~data[j].t2_anomaly
       /\ \E k \in DOMAIN PARAMS : data[j].anomaly[k]


\* C11: a parameter event is appended only when the parameter is newly out
\* of control: a parameter flagged in snapshot t-1 and still flagged in
\* snapshot t has no event of tick t in the log.
C11_OnlyNewExcursions ==
  \A j \in 2..Len(data) : \A k \in DOMAIN PARAMS :
    (data[j - 1].t + 1 = data[j].t /\ data[j - 1].anomaly[k] /\ data[j].anomaly[k]) =>
      ~ \E i \in 1..Len(alarmLog) : alarmLog[i].id = << data[j].t, k >>

\* the recorded reading is out of control: beyond UCL or LCL, strictly
ReadingOutOfControl(key, reading) ==
  reading > PARAMS[key].ucl \/ reading < PARAMS[key].lcl

\* C12: in every snapshot of the history window, a parameter's flag is set
\* exactly when the reading recorded in that snapshot is strictly above UCL
\* or strictly below LCL; a recorded reading equal to a limit is not flagged.
C12_FlagMatchesReading ==
  \A j \in 1..Len(data) : \A k \in DOMAIN PARAMS :
    data[j].anomaly[k] <=> ReadingOutOfControl(k, data[j].reading[k])


\* ------------------------------------------------------------------------
\* Claims about the analysis functions
\* ------------------------------------------------------------------------
\* the recorded statistic t2 (thousandths) is the sum of the squared
\* standardized deviations itself: t2 * 14400000 = hi * 10^6 + lo
RecordedIsSum(p) ==
  LET x == T2Exact(p.reading)
  IN  /\ x.lo % 100000 = 0
      /\ 144 * p.t2 = (10 * x.hi) + (x.lo \div 100000)

\* the joint flag follows the recorded statistic
JointFlagOfRecorded(p) == p.t2_anomaly <=> (p.t2 > T2_UCL)

\* C13: in every snapshot the joint flag is set exactly when the recorded
\* joint statistic is strictly greater than the joint limit 12.6, and the
\* recorded joint statistic equals the sum over the six parameters of the
\* squared standardized deviations of the recorded readings.
C13_JointFlagMatchesRecorded ==
  point # NoPoint => (JointFlagOfRecorded(point) /\ RecordedIsSum(point))

\* the events of a tick that takes snapshot p include the joint event
HasJointEvent(p) ==
  \E i \in 1..Len(NewAlarms(p)) : NewAlarms(p)[i].param = "T2 Multivariate"

\* C14: a snapshot whose T2 statistic is greater than 12.592, the
\* chi-squared critical value for df = 6 and alpha = 0.05, has the joint
\* flag set and gives rise to a T2 Multivariate alarm event.
C14_FlaggedAboveChiSquare ==
  (point # NoPoint /\ T2Greater(T2Exact(point.reading), 12592)) =>
    (point.t2_anomaly /\ HasJointEvent(point))

\* the sum of the contribution values, in ten-thousandths
ContributionSum(c) == SumTo([i \in 1..Len(c) |-> c[i].value], Len(c))

\* C15: for every snapshot the six contribution values returned by
\* computeContributions sum to the joint statistic recorded in the snapshot
\* exactly, and every contribution value is non-negative.
C15_DecompositionIdentity ==
  (point # NoPoint /\ contributions # << >>) =>
    /\ ContributionSum(contributions) = 10 * point.t2
    /\ \A i \in 1..Len(contributions) : contributions[i].value >= 0

\* the rbc of the entry with key k
RbcOf(r, k) == r[CHOOSE i \in 1..Len(r) : r[i].key = k].rbc

\* C16: for every snapshot and every parameter k, the RBC value returned by
\* computeRBC equals the contribution value returned by computeContributions
\* for k.
C16_RbcEqualsContribution ==
  (point # NoPoint /\ rbc # << >>) =>
    /\ Len(rbc) = NumParams /\ Len(contributions) = NumParams
    /\ \A i \in 1..NumParams :
         RbcOf(rbc, PARAM_KEYS[i]) = ValueOf(contributions, PARAM_KEYS[i])

\* a faulty snapshot analysed: a large share and a small one, both recovered
C16_Witness ==
  /\ lastCall = "ContributionPanel"
  /\ HasFault(input.fault)
  /\ rbc[1].rbc > 100000
  /\ rbc[2].rbc > 0
  /\ rbc[2].rbc < rbc[1].rbc
  /\ rbc[1].rbc = ValueOf(contributions, rbc[1].key)

\* position of a fault in the catalog
CatalogIndex(name) == CHOOSE i \in 1..Len(CatalogNames) : CatalogNames[i] = name

\* C17: diagnoseFault returns every catalog signature exactly once, ordered
\* by non-increasing score, signatures of equal score in catalog order.
C17_RankedStable ==
  diagnoses # << >> =>
    /\ Len(diagnoses) = Len(CatalogNames)
    /\ \A n \in 1..Len(CatalogNames) :
         Cardinality({ i \in 1..Len(diagnoses) : diagnoses[i].name = CatalogNames[n] }) = 1
    /\ \A i \in 1..(Len(diagnoses) - 1) :
         \/ diagnoses[i].confidence > diagnoses[i + 1].confidence
         \/ /\ diagnoses[i].confidence = diagnoses[i + 1].confidence
            /\ CatalogIndex(diagnoses[i].name) < CatalogIndex(diagnoses[i + 1].name)

\* two signatures tie at a positive score, below a signature of higher score
C17_Witness ==
  /\ diagnosed > 0
  /\ \E i \in 2..(Len(diagnoses) - 1) :
       /\ diagnoses[i].confidence = diagnoses[i + 1].confidence
       /\ diagnoses[i].confidence > 0
       /\ diagnoses[i - 1].confidence > diagnoses[i].confidence

\* the input is c times the expected vector of FAULT_MODES[i]
IsScaled(c, i) == input.kind = "vector" /\ input.vector = ScaledSignature(c, i)

\* C18: for every catalog signature X and positive scalar c, the vector c
\* times X's expected vector is diagnosed with X first, with score 100.0.
C18_ProportionalRanksFirst ==
  \A i \in 1..Len(FAULT_MODES) : \A c \in 1..MaxScale :
    (IsScaled(c, i) /\ diagnoses # << >>) =>
      /\ diagnoses[1].name = FAULT_MODES[i].name
      /\ diagnoses[1].confidence = 1000

\* a proper multiple of the last signature of the catalog has been diagnosed
C18_Witness ==
  /\ IsScaled(MaxScale, Len(FAULT_MODES))
  /\ lastCall = "diagnoseFault"
  /\ diagnoses[1].name = FAULT_MODES[Len(FAULT_MODES)].name
  /\ diagnoses[2].confidence < 1000

AllZero(c) == \A i \in 1..NumParams : ValueOf(c, PARAM_KEYS[i]) = 0

\* C19: for the all-zero contribution vector (all readings nominal) every
\* result of diagnoseFault has score 0.0 and the results are in catalog
\* order; no score is an error value.
C19_ZeroVector ==
  (diagnosed > 0 /\ AllZero(contributions)) =>
    /\ Len(diagnoses) = Len(CatalogNames)
    /\ \A i \in 1..Len(diagnoses) :
         /\ diagnoses[i].confidence = 0
         /\ diagnoses[i].name = CatalogNames[i]

\* a snapshot with every reading at its nominal mean has been diagnosed
C19_Witness ==
  /\ lastCall = "FaultDiagnosisPanel"
  /\ \A k \in DOMAIN PARAMS : point.reading[k] = PARAMS[k].mean
  /\ AllZero(contributions)
  /\ Len(diagnoses) = Len(CatalogNames)

\* a step that calls diagnoseFault
DiagnoseCall == diagnosed' = diagnosed + 1

\* C20: a call of diagnoseFault changes neither the catalog nor its input,
\* and returns the list an earlier call returned for the same vector,
\* whatever was called in between.
DiagnoseDeterministic ==
  DiagnoseCall =>
    /\ catalog' = catalog
    /\ input' = input /\ point' = point
    /\ contributions # << >> => contributions' = contributions
    /\ diagnosed > 0 => diagnoses' = diagnoses

TickComplete ==
  /\ tickCount = tRef
  /\ Len(data) > 0 => LatestPoint.t = tRef
  /\ faultCountdown = faultCdRef
  /\ activeFault = faultRef

\* the only interval armed, if any, is the one timerRef names, and it is
\* armed only while running or while the effect that clears it is pending
OneTimer ==
  /\ Cardinality(timers) <= 1
  /\ timers \subseteq {timerRef}
  /\ timers # {} => (running \/ effectPending)

\* the tick counter moves by one tick at a time, and that tick appends its
\* one snapshot and sets the exposed counter
OneTickAtATime ==
  (tRef' # tRef /\ lastOp' # "reset") =>
    /\ tRef' = tRef + 1
    /\ Len(data') = Min(Len(data) + 1, HISTORY_CAP)
    /\ data'[Len(data')].t = tRef'
    /\ tickCount' = tRef'

\* C23: across any sequence of start, stop, reset and re-render at most one
\* periodic timer is armed at a time; ticks are applied one after another,
\* and each tick's updates to history, alarm log, fault countdown and tick
\* counter are complete before the next tick begins.
C23_SingleWriter ==
  /\ [](OneTimer /\ TickComplete)
  /\ [][OneTickAtATime /\ LogStep]_vars

\* ticks of a second interval, armed after the first one was cleared
C23_Witness ==
  /\ lastOp = "tick"
  /\ running
  /\ timerRef = 2
  /\ timers = {2}
  /\ tRef >= 2
  /\ Len(data) >= 1

\* C26: in every reachable state a fault is active if and only if the fault
\* countdown is greater than 0; the countdown lies between 0 and the active
\* fault's duration; and the exposed (rendered) active fault and countdown
\* equal the internal ones the tick uses.
C26_FaultIffCountdown ==
  /\ HasFault(faultRef) <=> faultCdRef > 0
  /\ HasFault(activeFault) <=> faultCountdown > 0
  /\ faultCdRef >= 0
  /\ faultCdRef <= faultRef.duration
  /\ activeFault = faultRef
  /\ faultCountdown = faultCdRef

\* a fault part of the way through its countdown, injected over another one
C26_Witness ==
  /\ lastOp = "tick"
  /\ HasFault(activeFault)
  /\ HasFault(lastInject.over)
  /\ activeFault # lastInject.over
  /\ faultCountdown > 0
  /\ faultCountdown < activeFault.duration

\* a tick that takes its snapshot while no fault is active sets no flag and
\* appends no event
NoFaultTickQuiet ==
  (tRef' = tRef + 1 /\ lastBias' = "none") =>
    /\ ~AnyFlag(data'[Len(data')])
    /\ NewAlarms(data'[Len(data')]) = << >>
    /\ alarmLog' = alarmLog

\* C27: a snapshot generated while no fault is active is always in control:
\* none of its six per-parameter flags and not its joint flag is set, so a
\* tick with no active fault never appends an alarm event.
C27_NoFaultInControl == [][NoFaultTickQuiet]_vars

\* a quiet tick after a fault has run out: a reading one standard deviation
\* from its mean (the noise at its end), the log holding older events only
C27_Witness ==
  /\ lastOp = "tick"
  /\ lastBias = "none"
  /\ Injected
  /\ Len(alarmLog) > 0
  /\ alarmLog[1].t < tRef
  /\ \E k \in DOMAIN PARAMS : LatestPoint.reading[k] = PARAMS[k].mean - PARAMS[k].std
  /\ ~AnyFlag(LatestPoint)

\* C28: for each of the six fault modes, every snapshot generated while that
\* fault is active has the fault's primary driver parameter flagged out of
\* control, and its tick appends an alarm event for it, whatever the noise
\* and the magnitude multiplier drawn.
C28_DriverAlwaysFlagged ==
  (lastOp = "tick" /\ lastBias # "none") =>
    /\ LatestPoint.anomaly[lastBias]
    /\ \E i \in 1..Len(alarmLog) : alarmLog[i].id = << tRef, lastBias >>

\* the active fault and its countdown, internal and exposed
faultState == << faultRef, faultCdRef, activeFault, faultCountdown >>

\* stop and start leave the active fault and its countdown as they are
ToggleKeepsFault ==
  lastOp' \in {"stop", "start"} => UNCHANGED faultState

\* an inject clicked while stopped is not accepted
NoInjectWhileStopped ==
  (~running /\ clicks' = clicks + 1 /\ lastOp' \in {"inject", "inject_ignored"}) =>
    /\ lastOp' = "inject_ignored"
    /\ UNCHANGED faultState

\* the first tick after a stop (no inject in between) goes on with the fault
\* and the countdown the stop left
ResumeContinues ==
  (tRef' = tRef + 1 /\ lastStop.at = tRef /\ lastStop.cd > 1
     /\ faultRef = lastStop.fault /\ faultCdRef = lastStop.cd) =>
    /\ faultRef' = lastStop.fault
    /\ faultCdRef' = lastStop.cd - 1
    /\ faultCountdown' = lastStop.cd - 1
    /\ lastBias' = lastStop.fault.param

\* which snapshots carry an injection's bias is decided by the ticks since
\* the inject alone, whatever stops and starts came in between
BiasByTicksOnly ==
  Injected =>
    /\ faultCdRef = Max(0, lastInject.fault.duration - TicksSinceInject)
    /\ lastOp = "tick" =>
         (lastBias = lastInject.fault.param
            <=> (TicksSinceInject >= 1
                   /\ TicksSinceInject < lastInject.fault.duration))

\* C30: stop issued while a fault is active leaves the active fault and its
\* remaining countdown unchanged, and no inject is possible while stopped;
\* after the next start the same fault resumes with the same remaining
\* countdown, so the number of snapshots that carry a given injection's bias
\* does not depend on stop/start in between.
C30_StopKeepsFault ==
  /\ []BiasByTicksOnly
  /\ [][ToggleKeepsFault /\ NoInjectWhileStopped /\ ResumeContinues]_vars

\* a biased snapshot taken right after a stop and a start that fell within
\* the fault's countdown
C30_Witness ==
  /\ lastOp = "tick"
  /\ running
  /\ HasFault(lastStop.fault)
  /\ lastStop.cd > 1
  /\ tRef = lastStop.at + 1
  /\ faultRef = lastStop.fault
  /\ faultCdRef = lastStop.cd - 1
  /\ lastBias = lastStop.fault.param

\* ------------------------------------------------------------------------
\* Claims about the analysis functions, continued
\* ------------------------------------------------------------------------
\* the parameters of a ranking, in its order
KeysOf(r) == [i \in 1..Len(r) |-> r[i].key]

\* exactly one entry per registered parameter
OnePerParameter(r) ==
  /\ Len(r) = NumParams
  /\ \A n \in 1..NumParams :
       Cardinality({ i \in 1..Len(r) : r[i].key = PARAM_KEYS[n] }) = 1

\* entry i of a ranking may stand before entry j: its value v[i] is larger,
\* or equal with its parameter earlier in the registry
RankedBefore(r, v, i, j) ==
  \/ v[i] > v[j]
  \/ v[i] = v[j] /\ ParamIndex(r[i].key) < ParamIndex(r[j].key)

\* C24: for every snapshot, computeContributions and computeRBC each return
\* exactly one entry per registered parameter, ordered by non-increasing
\* value (ties in registry order), and the two outputs rank the parameters
\* in the same order.
C24_SameRanking ==
  (point # NoPoint /\ rbc # << >>) =>
    /\ OnePerParameter(contributions)
    /\ OnePerParameter(rbc)
    /\ \A i \in 1..(NumParams - 1) :
         /\ RankedBefore(contributions,
                         [n \in 1..NumParams |-> contributions[n].value], i, i + 1)
         /\ RankedBefore(rbc, [n \in 1..NumParams |-> rbc[n].rbc], i, i + 1)
    /\ KeysOf(contributions) = KeysOf(rbc)

\* a faulty snapshot ranked: distinct values first, then a tie, and the
\* ranking is not the registry order
C24_Witness ==
  /\ lastCall = "ContributionPanel"
  /\ HasFault(input.fault)
  /\ rbc[1].rbc > rbc[2].rbc
  /\ rbc[2].rbc > rbc[3].rbc
  /\ rbc[3].rbc = rbc[4].rbc
  /\ KeysOf(rbc) # PARAM_KEYS
  /\ KeysOf(contributions) = KeysOf(rbc)

\* every value of a contribution vector is non-negative
NonNegative(c) == \A i \in 1..Len(c) : c[i].value >= 0

\* C25: for every contribution vector with non-negative entries, every score
\* returned by diagnoseFault lies in the closed range [0, 100].
C25_ScoreRange ==
  (diagnosed > 0 /\ NonNegative(contributions)) =>
    \A i \in 1..Len(diagnoses) :
      diagnoses[i].confidence >= 0 /\ diagnoses[i].confidence <= 1000

\* a vector that has the direction of one signature: the top of the range
\* for that signature, and a score inside the range for the next one
C25_Witness ==
  /\ diagnosed > 0
  /\ NonNegative(contributions)
  /\ ~AllZero(contributions)
  /\ diagnoses[1].confidence = 1000
  /\ diagnoses[2].confidence > 0
  /\ diagnoses[2].confidence < 1000

\* C29: for each of the six fault modes, every snapshot generated while that
\* fault is active has the fault's primary driver parameter as its top
\* contributor, and diagnoseFault applied to that snapshot's contributions
\* ranks the injected fault mode first.
C29_InjectedFaultRankedFirst ==
  (input.kind = "draws" /\ HasFault(input.fault)) =>
    /\ contributions # << >> => contributions[1].key = input.fault.param
    /\ diagnosed > 0 => diagnoses[1].name = input.fault.name

\* the weakest fault diagnosed from a snapshot that set no flag, with other
\* parameters a full standard deviation from their means
C29_Witness ==
  /\ lastCall = "FaultDiagnosisPanel"
  /\ input.fault.name = "Thin Wall"
  /\ ~AnyFlag(point)
  /\ contributions[1].key = "wall_thickness"
  /\ contributions[2].value = 10000
  /\ contributions[3].value = 10000
  /\ diagnoses[1].name = "Thin Wall"
  /\ diagnoses[1].confidence < 900

============================================================================
